---- MODULE Spec2Model ----
(***************************************************************************)
(* Model of the project tree of src/App.tsx: the folder and article        *)
(* hierarchies held in ProjectState, their create / reorder / delete       *)
(* handlers, the selection state that the handlers read and write, the     *)
(* article editor's working copy, and the image Blob Store (IndexedDB)     *)
(* that the cascading deletes clean up.                                    *)
(*                                                                         *)
(* Ids are crypto.randomUUID() strings in the code; here they are fresh    *)
(* positive integers handed out by counters, and NoId (0) stands for null. *)
(***************************************************************************)
EXTENDS Integers, Sequences, FiniteSets, TLC

\* ------------------------------------------------------------------ bounds
MaxFolders == 3
MaxArticles == 3
MaxImages == 2
MaxTimers == 2
MaxSections == 1
\* The ids the rename and the expansion-toggle handlers are called with are
\* 1..MaxRenamed and 1..MaxToggled
MaxRenamed == 1
MaxToggled == 1

\* ----------------------------------------------------------- value spaces
NoId == 0
NoProject == [none |-> TRUE]
NoArticle == [none |-> TRUE]
\* localStorage.getItem(PROJECT_STORAGE_KEY): null, or a text JSON.parse rejects
NoDocument == [none |-> TRUE]
CorruptDocument == [corrupt |-> TRUE]

FolderIds == 1..MaxFolders
ArticleIds == 1..MaxArticles
ImageIds == 1..MaxImages
Directions == {"up", "down"}

DEFAULT_FOLDER_COLOR == "default"
NewColors == {"red"}
NewNames == {"renamed"}
NewTitles == {"retitled"}

VARIABLES
    projectState,       \* useState<ProjectState | null>
    selectedFolderId,   \* useState<string | null>
    selectedArticleId,  \* useState<string | null>
    editingArticle,     \* the editor modal's working copy of the article
    images,             \* Blob Store: ids of the stored image payloads
    pendingDeletes,     \* db.deleteImage requests issued and not yet completed
    timers,             \* parent ids of the deferred expansions (setTimeout 0)
    nextFolderId, nextArticleId, nextImageId,   \* fresh-id counters
    localStorage,       \* Structured Store: the item PROJECT_STORAGE_KEY
    lastOp              \* the last handler call (recorded by the tracing specs)

vars == <<projectState, selectedFolderId, selectedArticleId, editingArticle,
          images, pendingDeletes, timers,
          nextFolderId, nextArticleId, nextImageId, localStorage, lastOp>>

\* ---------------------------------------------------------- array helpers
Range(s) == {s[i] : i \in 1..Len(s)}

Ids(s) == {s[i].id : i \in 1..Len(s)}

Contains(s, x) == \E i \in 1..Len(s) : s[i] = x

\* Array.prototype.map
Map(s, F(_)) == [i \in 1..Len(s) |-> F(s[i])]

\* Array.prototype.filter
Filter(s, P(_)) == SelectSeq(s, P)

\* Array.prototype.findIndex, 1-based; 0 when nothing matches (-1 in the code)
FindIndex(s, P(_)) ==
    IF \E i \in 1..Len(s) : P(s[i])
    THEN CHOOSE i \in 1..Len(s) : P(s[i]) /\ \A j \in 1..(i - 1) : ~P(s[j])
    ELSE 0

\* Array.prototype.sort((a, b) => a.sortOrder - b.sortOrder): stable
RECURSIVE InsertSorted(_, _)
InsertSorted(s, x) ==
    IF s = <<>> THEN <<x>>
    ELSE IF x.sortOrder < Head(s).sortOrder THEN <<x>> \o s
         ELSE <<Head(s)>> \o InsertSorted(Tail(s), x)

RECURSIVE SortBySortOrder(_)
SortBySortOrder(s) ==
    IF s = <<>> THEN <<>>
    ELSE InsertSorted(SortBySortOrder(SubSeq(s, 1, Len(s) - 1)), s[Len(s)])

MaxSortOrder_Count(s) == Len(s) - 1

\* reduce((max, x) => Math.max(max, x.sortOrder), -1)
RECURSIVE MaxSortOrder(_)
MaxSortOrder(s) ==
    IF s = <<>> THEN -1
    ELSE LET m == MaxSortOrder(Tail(s))
         IN IF Head(s).sortOrder > m THEN Head(s).sortOrder ELSE m

\* The ids of the nodes reached from the ids in `found` by following parentId
\* downwards: the result of the breadth-first loops of the delete handlers.
RECURSIVE Descendants(_, _)
Descendants(nodes, found) ==
    LET more == found \cup {n.id : n \in {m \in Range(nodes) : m.parentId \in found}}
    IN IF more = found THEN found ELSE Descendants(nodes, more)

\* ----------------------------------------------------------------- effects
\* useEffect on [projectState?.folders, selectedFolderId]: with folders and no
\* selection, sort the folders array in place and select the first root
\* (or the first folder); with no folders, select none.
AutoSelectFolders(ps, selF) ==
    IF ps # NoProject /\ Len(ps.folders) > 0 /\ selF = NoId
    THEN SortBySortOrder(ps.folders)
    ELSE IF ps = NoProject THEN <<>> ELSE ps.folders

AutoSelectId_FirstInArray(ps, selF) ==
    IF ps # NoProject /\ Len(ps.folders) > 0 /\ selF = NoId THEN ps.folders[1].id
    ELSE IF ps # NoProject /\ Len(ps.folders) = 0 THEN NoId
    ELSE selF

AutoSelectId(ps, selF) ==
    IF ps # NoProject /\ Len(ps.folders) > 0 /\ selF = NoId
    THEN LET sorted == SortBySortOrder(ps.folders)
             i == FindIndex(sorted, LAMBDA f : f.parentId = NoId)
         IN IF i # 0 THEN sorted[i].id ELSE sorted[1].id
    ELSE IF ps # NoProject /\ Len(ps.folders) = 0 THEN NoId
    ELSE selF

\* The project state once the effects have run on what the handler set
Committed(ps, selF) ==
    IF ps = NoProject THEN ps
    ELSE [ps EXCEPT !.folders = AutoSelectFolders(ps, selF)]

\* The state after the handler's updates are committed and the effects have
\* run: ps, selF, selA are what the handler set, oldF the folder selected
\* before the handler.
CommitState_KeepsArticle(ps, oldF, selF, selA) ==
    /\ projectState' = Committed(ps, selF)
    /\ selectedFolderId' = AutoSelectId(ps, selF)
    /\ selectedArticleId' = selA

CommitState(ps, oldF, selF, selA) ==
    LET newF == AutoSelectId(ps, selF)
    IN /\ projectState' = Committed(ps, selF)
       /\ selectedFolderId' = newF
       \* useEffect on [selectedFolderId]: setSelectedArticleId(null)
       /\ selectedArticleId' = IF oldF # selF \/ selF # newF THEN NoId ELSE selA

Autosave_Never(ps, fresh) == localStorage' = localStorage

\* useEffect on [projectState]: localStorage.setItem(PROJECT_STORAGE_KEY,
\* JSON.stringify(projectState)). It is the first effect, so it writes the
\* state the handler set, before the in-place sort of the auto-select effect;
\* it runs when the handler set a new object (`fresh`).
Autosave(ps, fresh) ==
    localStorage' = IF ps # NoProject /\ fresh THEN ps ELSE localStorage

\* A handler that returns prev when it has nothing to do
Commit(ps, oldF, selF, selA) ==
    /\ CommitState(ps, oldF, selF, selA)
    /\ Autosave(ps, ps # projectState)

\* A handler that always builds a new ProjectState object
CommitFresh(ps, oldF, selF, selA) ==
    /\ CommitState(ps, oldF, selF, selA)
    /\ Autosave(ps, TRUE)

\* ------------------------------------------------------------------- Init
\* The record of the last handler call. A behaviour that starts with
\* lastOp.op = "untraced" keeps it so; one that starts with "init" records
\* every call.
Track(op, id, direction) ==
    lastOp' = IF lastOp.op = "untraced" THEN lastOp
              ELSE [op |-> op, id |-> id, direction |-> direction]

Welcome ==
    /\ projectState = NoProject
    /\ selectedFolderId = NoId
    /\ selectedArticleId = NoId
    /\ editingArticle = NoArticle
    /\ images = {}
    /\ pendingDeletes = {}
    /\ timers = <<>>
    /\ nextFolderId = 1
    /\ nextArticleId = 1
    /\ nextImageId = 1
    /\ localStorage = NoDocument

Init ==
    /\ Welcome
    /\ lastOp = [op |-> "untraced", id |-> NoId, direction |-> "none"]

InitTraced ==
    /\ Welcome
    /\ lastOp = [op |-> "init", id |-> NoId, direction |-> "none"]

\* The editor modal covers the window: the handlers of the panels behind it
\* run only while no article is being edited.
Ready == projectState # NoProject /\ editingArticle = NoArticle

\* ------------------------------------------------------- project handlers
EmptyProject ==
    [folders |-> <<>>, articles |-> <<>>,
     expandedFolderIds |-> <<>>, expandedArticleIds |-> <<>>]

handleNewProject ==
    /\ projectState = NoProject
    /\ CommitFresh(EmptyProject, selectedFolderId, NoId, NoId)
    /\ Track("newProject", NoId, "none")
    /\ UNCHANGED <<editingArticle, images, pendingDeletes, timers,
                   nextFolderId, nextArticleId, nextImageId>>

\* ------------------------------------------------------------- migration
HasKey(r, k) == k \in DOMAIN r

WithoutKey(r, k) == [x \in DOMAIN r \ {k} |-> r[x]]

WithKey(r, k, v) == [x \in DOMAIN r \cup {k} |-> IF x = k THEN v ELSE r[x]]

IsLegacySection_AnyImage(section) ==
    /\ section.type = "images"
    /\ \E image \in Range(section.images) : "dataUrl" \in DOMAIN image

\* Whether migrateProjectState rewrites the section: an images section whose
\* first image has the dataUrl key
IsLegacySection(section) ==
    /\ section.type = "images"
    /\ Len(section.images) > 0
    /\ HasKey(section.images[1], "dataUrl")

\* if (image.dataUrl): a non-empty payload
HasPayload(image) == HasKey(image, "dataUrl") /\ image.dataUrl # ""

MigrateSection_KeepsPayload(section) == section

MigrateSection(section) ==
    IF IsLegacySection(section)
    THEN [section EXCEPT !.images =
             Map(@, LAMBDA image :
                 IF HasPayload(image) THEN WithoutKey(image, "dataUrl") ELSE image)]
    ELSE section

\* The ids migrateProjectState passes to db.putImage
MigratedImageIds(project) ==
    UNION {UNION {{image.id : image \in {i \in Range(section.images) : HasPayload(i)}} :
                    section \in {x \in Range(article.sections) : IsLegacySection(x)}} :
             article \in Range(project.articles)}

migrateProjectState(project) ==
    [project EXCEPT !.articles =
        Map(@, LAMBDA article : [article EXCEPT !.sections = Map(@, MigrateSection)])]

\* "Backwards compatibility for fields that may not exist"
RepairSection(section) ==
    IF HasKey(section, "type") THEN section ELSE WithKey(section, "type", "fields")

RepairArticle(a) ==
    LET withParent == IF HasKey(a, "parentId") THEN a ELSE WithKey(a, "parentId", NoId)
    IN WithKey(withParent, "sections",
               IF HasKey(a, "sections") THEN Map(a.sections, RepairSection) ELSE <<>>)

ShapeRepair(loadedProject) ==
    LET withFolders ==
            IF HasKey(loadedProject, "expandedFolderIds") THEN loadedProject
            ELSE WithKey(loadedProject, "expandedFolderIds", <<>>)
        withArticles ==
            IF HasKey(withFolders, "expandedArticleIds") THEN withFolders
            ELSE WithKey(withFolders, "expandedArticleIds", <<>>)
    IN [withArticles EXCEPT !.articles = Map(@, RepairArticle)]

\* ------------------------------------------------------------ backup files
\* A legacy archive (a bare ProjectState): one folder, and an article whose
\* parentId names an article that is not in the archive.
LegacyOrphans ==
    [folders |-> <<[id |-> 1, name |-> "Nova Pasta", color |-> DEFAULT_FOLDER_COLOR,
                    parentId |-> NoId, sortOrder |-> 0]>>,
     articles |-> <<[id |-> 1, title |-> "Novo Subartigo", folderId |-> 1, sortOrder |-> 0,
                     sections |-> <<[id |-> 1, type |-> "images",
                                     images |-> <<[id |-> 1, caption |-> ""]>>]>>,
                     relatedArticleIds |-> <<>>, parentId |-> 2]>>]

\* A current archive {projectState, images}: a folder with a subfolder, an
\* article with a sub-article and a gallery, and the gallery's image
CurrentNested ==
    [projectState |->
        [folders |-> <<[id |-> 1, name |-> "Nova Pasta", color |-> DEFAULT_FOLDER_COLOR,
                        parentId |-> NoId, sortOrder |-> 0],
                       [id |-> 2, name |-> "Nova Subpasta", color |-> DEFAULT_FOLDER_COLOR,
                        parentId |-> 1, sortOrder |-> 0]>>,
         articles |-> <<[id |-> 1, title |-> "Novo Artigo", folderId |-> 2, sortOrder |-> 0,
                         sections |-> <<[id |-> 1, type |-> "images",
                                         images |-> <<[id |-> 1, caption |-> ""]>>]>>,
                         relatedArticleIds |-> <<>>, parentId |-> NoId],
                        [id |-> 2, title |-> "Novo Subartigo", folderId |-> 2, sortOrder |-> 0,
                         sections |-> <<>>, relatedArticleIds |-> <<>>, parentId |-> 1]>>,
         expandedFolderIds |-> <<1>>,
         expandedArticleIds |-> <<1>>],
     images |-> <<1>>]

\* A current archive whose projectState has neither folders nor articles
CurrentMalformed ==
    [projectState |-> [title |-> "sem pastas"], images |-> <<>>]

\* A legacy archive without folders
LegacyMalformed ==
    [articles |-> <<>>]

\* A legacy archive whose folders array is not in sortOrder order
LegacyUnsorted ==
    [folders |-> <<[id |-> 1, name |-> "Nova Pasta", color |-> DEFAULT_FOLDER_COLOR,
                    parentId |-> NoId, sortOrder |-> 1],
                   [id |-> 2, name |-> "Nova Pasta", color |-> DEFAULT_FOLDER_COLOR,
                    parentId |-> NoId, sortOrder |-> 0]>>,
     articles |-> <<>>]

BackupFiles ==
    {LegacyOrphans, CurrentNested, CurrentMalformed, LegacyMalformed, LegacyUnsorted}

\* A legacy archive with inline images. The first gallery starts with an
\* inline image and also holds an image that is already a reference and one
\* whose payload is the empty string; the second gallery starts with a
\* reference and holds an inline image after it.
LegacyMixed ==
    [folders |-> <<[id |-> 1, name |-> "Nova Pasta", color |-> DEFAULT_FOLDER_COLOR,
                    parentId |-> NoId, sortOrder |-> 0]>>,
     articles |-> <<[id |-> 1, title |-> "Novo Artigo", folderId |-> 1, sortOrder |-> 0,
                     sections |-> <<[id |-> 1, type |-> "images",
                                     images |-> <<[id |-> 2, caption |-> "a", dataUrl |-> "data:2"],
                                                  [id |-> 3, caption |-> "b"],
                                                  [id |-> 4, caption |-> "c", dataUrl |-> ""]>>],
                                    [id |-> 2, type |-> "images",
                                     images |-> <<[id |-> 5, caption |-> "d"],
                                                  [id |-> 6, caption |-> "e", dataUrl |-> "data:6"]>>]>>,
                     relatedArticleIds |-> <<>>, parentId |-> NoId]>>]

\* A current archive whose projectState still has an inline image, next to
\* the image the archive brings along
CurrentInline ==
    [projectState |->
        [folders |-> <<[id |-> 1, name |-> "Nova Pasta", color |-> DEFAULT_FOLDER_COLOR,
                        parentId |-> NoId, sortOrder |-> 0]>>,
         articles |-> <<[id |-> 1, title |-> "Novo Artigo", folderId |-> 1, sortOrder |-> 0,
                         sections |-> <<[id |-> 1, type |-> "images",
                                         images |-> <<[id |-> 2, caption |-> "a",
                                                       dataUrl |-> "data:2"]>>]>>,
                         relatedArticleIds |-> <<>>, parentId |-> NoId]>>,
         expandedFolderIds |-> <<>>,
         expandedArticleIds |-> <<>>],
     images |-> <<3>>]

\* A document with a projectState member and no images array
ProjectStateOnly ==
    [projectState |-> [folders |-> <<>>, articles |-> <<>>]]

\* A bare ProjectState that has an images array of its own
LegacyWithImages ==
    [folders |-> <<[id |-> 1, name |-> "Nova Pasta", color |-> DEFAULT_FOLDER_COLOR,
                    parentId |-> NoId, sortOrder |-> 0]>>,
     articles |-> <<>>,
     images |-> <<2>>]

\* A legacy archive whose folders all name a parent that is not in it
LegacyRootless ==
    [folders |-> <<[id |-> 1, name |-> "Nova Subpasta", color |-> DEFAULT_FOLDER_COLOR,
                    parentId |-> 3, sortOrder |-> 1],
                   [id |-> 2, name |-> "Nova Subpasta", color |-> DEFAULT_FOLDER_COLOR,
                    parentId |-> 3, sortOrder |-> 0]>>,
     articles |-> <<>>]

ArchiveFiles ==
    {LegacyMixed, CurrentInline, ProjectStateOnly, LegacyWithImages, CurrentNested,
     LegacyUnsorted, LegacyRootless}

\* The ids a loaded project mentions: the fresh ids come after them
MaxOf(S) == IF S = {} THEN 0 ELSE CHOOSE m \in S : \A x \in S : x <= m

MentionedFolderIds(project) ==
    Ids(project.folders) \cup {f.parentId : f \in Range(project.folders)}
        \cup {a.folderId : a \in Range(project.articles)}

MentionedArticleIds(project) ==
    Ids(project.articles) \cup {a.parentId : a \in Range(project.articles)}

MentionedImageIds(project) ==
    UNION {UNION {Ids(x.images) : x \in {y \in Range(a.sections) : y.type = "images"}} :
             a \in Range(project.articles)}

\* loadedData.projectState && Array.isArray(loadedData.images): a member that
\* is null, and an images member that is not an array, are absent keys here
IsCurrentFormat(loadedData) ==
    HasKey(loadedData, "projectState") /\ HasKey(loadedData, "images")

LoadedProject_Whole(loadedData) == loadedData

LoadedProject(loadedData) ==
    IF IsCurrentFormat(loadedData) THEN loadedData.projectState ELSE loadedData

\* reader.onload of handleLoadBackup, for a file that parses
handleLoadBackup(loadedData) ==
    /\ projectState = NoProject
    /\ LET loadedProject == LoadedProject(loadedData)
           \* db.clearImages(); db.putAllImages(loadedData.images)
           stored == IF IsCurrentFormat(loadedData) THEN Range(loadedData.images) ELSE images
       IN IF HasKey(loadedProject, "folders") /\ HasKey(loadedProject, "articles")
          THEN LET repaired == ShapeRepair(loadedProject)
               IN /\ images' = stored \cup MigratedImageIds(repaired)
                  /\ CommitFresh(migrateProjectState(repaired), selectedFolderId, NoId, NoId)
                  /\ nextFolderId' = MaxOf(MentionedFolderIds(repaired)) + 1
                  /\ nextArticleId' = MaxOf(MentionedArticleIds(repaired)) + 1
                  /\ nextImageId' = MaxOf(MentionedImageIds(repaired) \cup stored) + 1
          ELSE \* alert('Arquivo de backup inválido.')
               /\ images' = stored
               /\ UNCHANGED <<localStorage, projectState, selectedFolderId, selectedArticleId,
                              nextFolderId, nextArticleId, nextImageId>>
    /\ Track("loadBackup", NoId, "none")
    /\ UNCHANGED <<editingArticle, pendingDeletes, timers>>

\* -------------------------------------------------------- continue project
\* The db.putImage calls of migrateProjectState, in the order of its loops
RECURSIVE Flatten(_)
Flatten(ss) == IF ss = <<>> THEN <<>> ELSE Head(ss) \o Flatten(Tail(ss))

MigratedImagePuts(project) ==
    Flatten(Map(project.articles, LAMBDA article :
        Flatten(Map(article.sections, LAMBDA section :
            IF IsLegacySection(section)
            THEN Map(Filter(section.images, HasPayload), LAMBDA image : image.id)
            ELSE <<>>))))

\* The "backwards compatibility" block of handleContinueProject
ContinueRepair(parsedProject) ==
    ShapeRepair(IF HasKey(parsedProject, "articles") THEN parsedProject
                ELSE WithKey(parsedProject, "articles", <<>>))

\* catch (error) { handleNewProject() }: the empty project replaces whatever
\* was loaded, and the autosave effect writes it
ContinueCatch ==
    /\ CommitFresh(EmptyProject, selectedFolderId, NoId, NoId)
    /\ UNCHANGED <<nextFolderId, nextArticleId, nextImageId>>

\* JSON.parse(savedProject) throws
ContinueParseError ==
    /\ projectState = NoProject
    /\ localStorage = CorruptDocument
    /\ ContinueCatch
    /\ Track("continueProject", NoId, "none")
    /\ UNCHANGED <<editingArticle, images, pendingDeletes, timers>>

\* The db.putImage call number n + 1 of the migration rejects: the n images
\* before it are in the Blob Store
ContinueMigrationFailure(n) ==
    /\ projectState = NoProject
    /\ localStorage \notin {NoDocument, CorruptDocument}
    /\ LET puts == MigratedImagePuts(ContinueRepair(localStorage))
       IN /\ n < Len(puts)
          /\ images' = images \cup {puts[i] : i \in 1..n}
    /\ ContinueCatch
    /\ Track("continueProject", NoId, "none")
    /\ UNCHANGED <<editingArticle, pendingDeletes, timers>>

ContinueSuccess ==
    /\ projectState = NoProject
    /\ localStorage \notin {NoDocument, CorruptDocument}
    /\ LET repaired == ContinueRepair(localStorage)
       IN /\ images' = images \cup MigratedImageIds(repaired)
          /\ CommitFresh(migrateProjectState(repaired),
                         selectedFolderId, selectedFolderId, selectedArticleId)
          /\ nextFolderId' = MaxOf(MentionedFolderIds(repaired) \cup {nextFolderId - 1}) + 1
          /\ nextArticleId' = MaxOf(MentionedArticleIds(repaired) \cup {nextArticleId - 1}) + 1
          /\ nextImageId' = MaxOf(MentionedImageIds(repaired) \cup {nextImageId - 1}) + 1
    /\ Track("continueProject", NoId, "none")
    /\ UNCHANGED <<editingArticle, pendingDeletes, timers>>

handleContinueProject ==
    \/ ContinueParseError
    \/ \E n \in 0..MaxImages : ContinueMigrationFailure(n)
    \/ ContinueSuccess

\* ------------------------------------------------------- persisted stores
\* What an earlier session left behind: the stored document and the blobs.
\* A project with a gallery whose image is in the Blob Store
StoredGallery ==
    [folders |-> <<[id |-> 1, name |-> "Nova Pasta", color |-> DEFAULT_FOLDER_COLOR,
                    parentId |-> NoId, sortOrder |-> 0]>>,
     articles |-> <<[id |-> 1, title |-> "Novo Artigo", folderId |-> 1, sortOrder |-> 0,
                     sections |-> <<[id |-> 1, type |-> "images",
                                     images |-> <<[id |-> 1, caption |-> ""]>>]>>,
                     relatedArticleIds |-> <<>>, parentId |-> NoId]>>,
     expandedFolderIds |-> <<>>,
     expandedArticleIds |-> <<>>]

\* A project of the schema that kept the images inline
StoredInline ==
    [folders |-> <<[id |-> 1, name |-> "Nova Pasta", color |-> DEFAULT_FOLDER_COLOR,
                    parentId |-> NoId, sortOrder |-> 0]>>,
     articles |-> <<[id |-> 1, title |-> "Novo Artigo", folderId |-> 1, sortOrder |-> 0,
                     sections |-> <<[id |-> 1, type |-> "images",
                                     images |-> <<[id |-> 1, caption |-> "", dataUrl |-> "data:1"],
                                                  [id |-> 2, caption |-> "", dataUrl |-> "data:2"]>>]>>,
                     relatedArticleIds |-> <<>>, parentId |-> NoId]>>,
     expandedFolderIds |-> <<>>,
     expandedArticleIds |-> <<>>]

PersistedStores ==
    {[document |-> NoDocument, images |-> {}],
     [document |-> CorruptDocument, images |-> {}],
     [document |-> StoredGallery, images |-> {1}],
     [document |-> StoredInline, images |-> {}]}

\* The stores above, one whose document has the galleries of LegacyMixed and
\* one whose document has the folders of LegacyRootless
ArchiveStores ==
    PersistedStores \cup
        {[document |-> ShapeRepair(LegacyMixed), images |-> {}],
         [document |-> ShapeRepair(LegacyRootless), images |-> {}]}

\* The welcome screen of a session that finds a persisted store
WelcomeStored(stores) ==
    /\ \E store \in stores :
          /\ localStorage = store.document
          /\ images = store.images
          /\ nextImageId = MaxOf(store.images) + 1
    /\ projectState = NoProject
    /\ selectedFolderId = NoId
    /\ selectedArticleId = NoId
    /\ editingArticle = NoArticle
    /\ pendingDeletes = {}
    /\ timers = <<>>
    /\ nextFolderId = 1
    /\ nextArticleId = 1
    /\ lastOp = [op |-> "untraced", id |-> NoId, direction |-> "none"]

InitStored == WelcomeStored(PersistedStores)

InitArchive == WelcomeStored(ArchiveStores)

\* ---------------------------------------------------------- folder handlers
NewFolder(prev, parentId, id) ==
    LET siblings == Filter(prev.folders, LAMBDA f : f.parentId = parentId)
        maxSortOrder == MaxSortOrder(siblings)
    IN [id |-> id,
        name |-> IF parentId # NoId THEN "Nova Subpasta" ELSE "Nova Pasta",
        color |-> DEFAULT_FOLDER_COLOR,
        parentId |-> parentId,
        sortOrder |-> maxSortOrder + 1]

createFolder(parentId) ==
    /\ Ready
    /\ nextFolderId <= MaxFolders
    /\ LET prev == projectState
           newFolder == NewFolder(prev, parentId, nextFolderId)
           defer == parentId # NoId /\ ~Contains(prev.expandedFolderIds, parentId)
       IN /\ defer => Len(timers) < MaxTimers
          /\ timers' = IF defer THEN Append(timers, parentId) ELSE timers
          /\ Commit([prev EXCEPT !.folders = Append(prev.folders, newFolder)],
                    selectedFolderId, newFolder.id, selectedArticleId)
    /\ nextFolderId' = nextFolderId + 1
    /\ Track("createFolder", parentId, "none")
    /\ UNCHANGED <<editingArticle, images, pendingDeletes, nextArticleId, nextImageId>>

handleCreateFolder == createFolder(NoId)

\* Sidebar offers "new subfolder" on the folders it renders
handleCreateSubfolder(parentId) ==
    /\ projectState # NoProject
    /\ parentId \in Ids(projectState.folders)
    /\ createFolder(parentId)

DeferredExpansion_Nothing(p, parentId) == p

\* setTimeout(() => setProjectState(p => ({...p, expandedFolderIds: [...p.expandedFolderIds, parentId]})), 0)
DeferredExpansion(p, parentId) ==
    [p EXCEPT !.expandedFolderIds = Append(p.expandedFolderIds, parentId)]

runDeferredExpansion ==
    /\ projectState # NoProject
    /\ timers # <<>>
    /\ timers' = Tail(timers)
    /\ Commit(DeferredExpansion(projectState, Head(timers)),
              selectedFolderId, selectedFolderId, selectedArticleId)
    /\ Track("deferredExpansion", Head(timers), "none")
    /\ UNCHANGED <<editingArticle, images, pendingDeletes,
                   nextFolderId, nextArticleId, nextImageId>>

UpdateFolder_Reparent(prev, id, newName, newColor) ==
    [prev EXCEPT !.folders =
        Map(prev.folders, LAMBDA folder :
            IF folder.id = id
            THEN [folder EXCEPT !.name = newName, !.color = newColor, !.parentId = id]
            ELSE folder)]

UpdateFolder(prev, id, newName, newColor) ==
    [prev EXCEPT !.folders =
        Map(prev.folders, LAMBDA folder :
            IF folder.id = id
            THEN [folder EXCEPT !.name = newName, !.color = newColor]
            ELSE folder)]

handleUpdateFolder(id, newName, newColor) ==
    /\ Ready
    /\ CommitFresh(UpdateFolder(projectState, id, newName, newColor),
              selectedFolderId, selectedFolderId, selectedArticleId)
    /\ Track("updateFolder", id, "none")
    /\ UNCHANGED <<editingArticle, images, pendingDeletes, timers,
                   nextFolderId, nextArticleId, nextImageId>>

\* The image ids of the images sections of the articles in `arts`
ImagesOfArticle(article) ==
    UNION {Ids(section.images) :
             section \in {x \in Range(article.sections) : x.type = "images"}}

ImagesOf(arts) == UNION {ImagesOfArticle(a) : a \in Range(arts)}

FolderIdsToDelete_ChildrenOnly(prev, id) ==
    {id} \cup {f.id : f \in {g \in Range(prev.folders) : g.parentId = id}}

\* idsToDelete of handleDeleteFolder: id and its transitive child folders
FolderIdsToDelete(prev, id) == Descendants(prev.folders, {id})

DeleteFolderFolders(prev, id) ==
    Filter(prev.folders, LAMBDA f : f.id \notin FolderIdsToDelete(prev, id))

DeleteFolderArticlesToDelete(prev, id) ==
    Filter(prev.articles, LAMBDA a : a.folderId \in FolderIdsToDelete(prev, id))

DeleteFolderArticles_OwnOnly(prev, id) ==
    Filter(prev.articles, LAMBDA a : a.folderId # id)

DeleteFolderArticles(prev, id) ==
    Filter(prev.articles, LAMBDA a : a.folderId \notin FolderIdsToDelete(prev, id))

\* The selection fallback of handleDeleteFolder
DeleteFolderSelection(prev, id, selF) ==
    LET folderToDelete == prev.folders[FindIndex(prev.folders, LAMBDA f : f.id = id)]
        idsToDelete == FolderIdsToDelete(prev, id)
        newFolders == DeleteFolderFolders(prev, id)
    IN IF selF # NoId /\ selF \in idsToDelete
       THEN IF folderToDelete.parentId # NoId /\ folderToDelete.parentId \notin idsToDelete
            THEN folderToDelete.parentId
            ELSE IF Len(newFolders) > 0 THEN newFolders[1].id
            ELSE NoId
       ELSE selF

handleDeleteFolder(id) ==
    /\ Ready
    /\ LET prev == projectState
       IN IF id \notin Ids(prev.folders)
          THEN /\ Commit(prev, selectedFolderId, selectedFolderId, selectedArticleId)
               /\ UNCHANGED pendingDeletes
          ELSE /\ pendingDeletes' =
                      pendingDeletes \cup ImagesOf(DeleteFolderArticlesToDelete(prev, id))
               /\ Commit([prev EXCEPT !.folders = DeleteFolderFolders(prev, id),
                                      !.articles = DeleteFolderArticles(prev, id)],
                         selectedFolderId,
                         DeleteFolderSelection(prev, id, selectedFolderId),
                         selectedArticleId)
    /\ Track("deleteFolder", id, "none")
    /\ UNCHANGED <<editingArticle, images, timers,
                   nextFolderId, nextArticleId, nextImageId>>

TargetSibling_DownToLast(siblings, id, direction) ==
    LET sorted == SortBySortOrder(siblings)
        currentIndex == FindIndex(sorted, LAMBDA n : n.id = id)
    IN IF currentIndex = 0 THEN NoId
       ELSE IF direction = "up" /\ currentIndex > 1 THEN sorted[currentIndex - 1].id
       ELSE IF direction = "down" /\ currentIndex < Len(sorted) THEN sorted[Len(sorted)].id
       ELSE NoId

TargetSibling_WrapAround(siblings, id, direction) ==
    LET sorted == SortBySortOrder(siblings)
        currentIndex == FindIndex(sorted, LAMBDA n : n.id = id)
    IN IF currentIndex = 0 \/ Len(sorted) < 2 THEN NoId
       ELSE IF direction = "up"
            THEN sorted[IF currentIndex > 1 THEN currentIndex - 1 ELSE Len(sorted)].id
            ELSE sorted[IF currentIndex < Len(sorted) THEN currentIndex + 1 ELSE 1].id

\* The sibling a reorder exchanges sortOrder with: the neighbour of node `id`
\* among `siblings` sorted by sortOrder; NoId at a boundary.
TargetSibling(siblings, id, direction) ==
    LET sorted == SortBySortOrder(siblings)
        currentIndex == FindIndex(sorted, LAMBDA n : n.id = id)
    IN IF currentIndex = 0 THEN NoId
       ELSE IF direction = "up" /\ currentIndex > 1 THEN sorted[currentIndex - 1].id
       ELSE IF direction = "down" /\ currentIndex < Len(sorted) THEN sorted[currentIndex + 1].id
       ELSE NoId

SwapSortOrder_OneSided(nodes, a, b) ==
    LET nb == nodes[FindIndex(nodes, LAMBDA n : n.id = b)]
    IN Map(nodes, LAMBDA n : IF n.id = a THEN [n EXCEPT !.sortOrder = nb.sortOrder] ELSE n)

\* nodes.map(...) exchanging the sortOrder of the nodes `a` and `b`
SwapSortOrder(nodes, a, b) ==
    LET na == nodes[FindIndex(nodes, LAMBDA n : n.id = a)]
        nb == nodes[FindIndex(nodes, LAMBDA n : n.id = b)]
    IN Map(nodes, LAMBDA n :
            IF n.id = a THEN [n EXCEPT !.sortOrder = nb.sortOrder]
            ELSE IF n.id = b THEN [n EXCEPT !.sortOrder = na.sortOrder]
            ELSE n)

FolderSiblings(prev, folderId) ==
    LET folderToMove == prev.folders[FindIndex(prev.folders, LAMBDA f : f.id = folderId)]
    IN Filter(prev.folders, LAMBDA f : f.parentId = folderToMove.parentId)

ReorderFolder(prev, folderId, direction) ==
    IF folderId \notin Ids(prev.folders) THEN prev
    ELSE LET target == TargetSibling(FolderSiblings(prev, folderId), folderId, direction)
         IN IF target = NoId THEN prev
            ELSE [prev EXCEPT !.folders = SwapSortOrder(prev.folders, folderId, target)]

handleReorderFolder(folderId, direction) ==
    /\ Ready
    /\ Commit(ReorderFolder(projectState, folderId, direction),
              selectedFolderId, selectedFolderId, selectedArticleId)
    /\ Track("reorderFolder", folderId, direction)
    /\ UNCHANGED <<editingArticle, images, pendingDeletes, timers,
                   nextFolderId, nextArticleId, nextImageId>>

\* Array.from(new Set(s)): the first occurrence of each element, in order
RECURSIVE Dedup(_)
Dedup(s) ==
    IF s = <<>> THEN <<>>
    ELSE LET front == Dedup(SubSeq(s, 1, Len(s) - 1))
         IN IF Contains(front, s[Len(s)]) THEN front ELSE Append(front, s[Len(s)])

ToggleIn_AddOnly(expanded, id) ==
    IF Contains(expanded, id) THEN expanded ELSE Append(expanded, id)

\* new Set(expanded); has(id) ? delete(id) : add(id); Array.from
ToggleIn(expanded, id) ==
    LET set == Dedup(expanded)
    IN IF Contains(set, id) THEN Filter(set, LAMBDA x : x # id) ELSE Append(set, id)

handleToggleFolderExpansion(folderId) ==
    /\ Ready
    /\ Commit([projectState EXCEPT !.expandedFolderIds = ToggleIn(@, folderId)],
              selectedFolderId, selectedFolderId, selectedArticleId)
    /\ Track("toggleFolderExpansion", folderId, "none")
    /\ UNCHANGED <<editingArticle, images, pendingDeletes, timers,
                   nextFolderId, nextArticleId, nextImageId>>

\* onSelectFolder={setSelectedFolderId}, called by the folder items rendered
selectFolder(id) ==
    /\ Ready
    /\ id \in Ids(projectState.folders)
    /\ Commit(projectState, selectedFolderId, id, selectedArticleId)
    /\ Track("selectFolder", id, "none")
    /\ UNCHANGED <<editingArticle, images, pendingDeletes, timers,
                   nextFolderId, nextArticleId, nextImageId>>

\* -------------------------------------------------------- article handlers
NewArticle_AllFolders(prev, selF, id) ==
    [id |-> id,
     title |-> "Novo Artigo",
     folderId |-> selF,
     sortOrder |-> MaxSortOrder(Filter(prev.articles, LAMBDA a : a.parentId = NoId)) + 1,
     sections |-> <<>>,
     relatedArticleIds |-> <<>>,
     parentId |-> NoId]

NewArticle(prev, selF, id) ==
    LET siblings == Filter(prev.articles,
                           LAMBDA a : a.folderId = selF /\ a.parentId = NoId)
        maxSortOrder == MaxSortOrder(siblings)
    IN [id |-> id,
        title |-> "Novo Artigo",
        folderId |-> selF,
        sortOrder |-> maxSortOrder + 1,
        sections |-> <<>>,
        relatedArticleIds |-> <<>>,
        parentId |-> NoId]

handleCreateArticle ==
    /\ Ready
    /\ nextArticleId <= MaxArticles
    /\ selectedFolderId # NoId
    /\ LET newArticle == NewArticle(projectState, selectedFolderId, nextArticleId)
       IN /\ editingArticle' = newArticle
          /\ Commit([projectState EXCEPT !.articles = Append(@, newArticle)],
                    selectedFolderId, selectedFolderId, selectedArticleId)
    /\ nextArticleId' = nextArticleId + 1
    /\ Track("createArticle", NoId, "none")
    /\ UNCHANGED <<images, pendingDeletes, timers, nextFolderId, nextImageId>>

NewSubArticle_FirstFolder(prev, parentId, id) ==
    [id |-> id,
     title |-> "Novo Subartigo",
     folderId |-> prev.articles[1].folderId,
     parentId |-> parentId,
     sortOrder |-> MaxSortOrder(Filter(prev.articles, LAMBDA a : a.parentId = parentId)) + 1,
     sections |-> <<>>,
     relatedArticleIds |-> <<>>]

NewSubArticle(prev, parentId, id) ==
    LET parentArticle == prev.articles[FindIndex(prev.articles, LAMBDA a : a.id = parentId)]
        siblings == Filter(prev.articles, LAMBDA a : a.parentId = parentId)
        maxSortOrder == MaxSortOrder(siblings)
    IN [id |-> id,
        title |-> "Novo Subartigo",
        folderId |-> parentArticle.folderId,
        parentId |-> parentId,
        sortOrder |-> maxSortOrder + 1,
        sections |-> <<>>,
        relatedArticleIds |-> <<>>]

handleCreateSubArticle(parentId) ==
    /\ Ready
    /\ IF parentId \notin Ids(projectState.articles)
       THEN /\ Commit(projectState, selectedFolderId, selectedFolderId, selectedArticleId)
            /\ UNCHANGED <<editingArticle, nextArticleId>>
       ELSE /\ nextArticleId <= MaxArticles
            /\ LET prev == projectState
                   newArticle == NewSubArticle(prev, parentId, nextArticleId)
                   newExpandedArticleIds ==
                       IF Contains(prev.expandedArticleIds, parentId)
                       THEN prev.expandedArticleIds
                       ELSE Append(prev.expandedArticleIds, parentId)
               IN /\ editingArticle' = newArticle
                  /\ Commit([prev EXCEPT !.articles = Append(@, newArticle),
                                         !.expandedArticleIds = newExpandedArticleIds],
                            selectedFolderId, selectedFolderId, selectedArticleId)
            /\ nextArticleId' = nextArticleId + 1
    /\ Track("createSubArticle", parentId, "none")
    /\ UNCHANGED <<images, pendingDeletes, timers, nextFolderId, nextImageId>>

UpdateArticleTitle(prev, articleId, newTitle) ==
    [prev EXCEPT !.articles =
        Map(prev.articles, LAMBDA a :
            IF a.id = articleId THEN [a EXCEPT !.title = newTitle] ELSE a)]

handleUpdateArticleTitle(articleId, newTitle) ==
    /\ Ready
    /\ CommitFresh(UpdateArticleTitle(projectState, articleId, newTitle),
              selectedFolderId, selectedFolderId, selectedArticleId)
    /\ Track("updateArticleTitle", articleId, "none")
    /\ UNCHANGED <<editingArticle, images, pendingDeletes, timers,
                   nextFolderId, nextArticleId, nextImageId>>

ArticleSiblings(prev, articleId) ==
    LET articleToMove == prev.articles[FindIndex(prev.articles, LAMBDA a : a.id = articleId)]
    IN Filter(prev.articles, LAMBDA a : a.parentId = articleToMove.parentId
                                         /\ a.folderId = articleToMove.folderId)

ReorderArticle(prev, articleId, direction) ==
    IF articleId \notin Ids(prev.articles) THEN prev
    ELSE LET target == TargetSibling(ArticleSiblings(prev, articleId), articleId, direction)
         IN IF target = NoId THEN prev
            ELSE [prev EXCEPT !.articles = SwapSortOrder(prev.articles, articleId, target)]

handleReorderArticle(articleId, direction) ==
    /\ Ready
    /\ Commit(ReorderArticle(projectState, articleId, direction),
              selectedFolderId, selectedFolderId, selectedArticleId)
    /\ Track("reorderArticle", articleId, direction)
    /\ UNCHANGED <<editingArticle, images, pendingDeletes, timers,
                   nextFolderId, nextArticleId, nextImageId>>

handleToggleArticleExpansion(articleId) ==
    /\ Ready
    /\ Commit([projectState EXCEPT !.expandedArticleIds = ToggleIn(@, articleId)],
              selectedFolderId, selectedFolderId, selectedArticleId)
    /\ Track("toggleArticleExpansion", articleId, "none")
    /\ UNCHANGED <<editingArticle, images, pendingDeletes, timers,
                   nextFolderId, nextArticleId, nextImageId>>

\* onSelectArticle={setSelectedArticleId}, called by the article items of the
\* selected folder's list
selectArticle(id) ==
    /\ Ready
    /\ \E a \in Range(projectState.articles) : a.id = id /\ a.folderId = selectedFolderId
    /\ Commit(projectState, selectedFolderId, selectedFolderId, id)
    /\ Track("selectArticle", id, "none")
    /\ UNCHANGED <<editingArticle, images, pendingDeletes, timers,
                   nextFolderId, nextArticleId, nextImageId>>

\* ArticleViewer shows the selected article and a button for each of its
\* relatedArticleIds that allArticles.find resolves; the button calls
\* onSelectArticle(related.id)
relatedArticles(article, allArticles) ==
    Filter(article.relatedArticleIds, LAMBDA id : id \in Ids(allArticles))

selectRelatedArticle(id) ==
    /\ Ready
    /\ \E article \in Range(projectState.articles) :
          /\ article.id = selectedArticleId
          /\ Contains(relatedArticles(article, projectState.articles), id)
    /\ Commit(projectState, selectedFolderId, selectedFolderId, id)
    /\ Track("selectRelatedArticle", id, "none")
    /\ UNCHANGED <<editingArticle, images, pendingDeletes, timers,
                   nextFolderId, nextArticleId, nextImageId>>

handleEditArticle(articleId) ==
    /\ Ready
    /\ articleId \in Ids(projectState.articles)
    /\ editingArticle' =
           projectState.articles[FindIndex(projectState.articles, LAMBDA a : a.id = articleId)]
    /\ Track("editArticle", articleId, "none")
    /\ UNCHANGED <<localStorage, projectState, selectedFolderId, selectedArticleId, images,
                   pendingDeletes, timers, nextFolderId, nextArticleId, nextImageId>>

SaveArticle(prev, updatedArticle) ==
    [prev EXCEPT !.articles =
        Map(prev.articles, LAMBDA a : IF a.id = updatedArticle.id THEN updatedArticle ELSE a)]

handleSaveArticle ==
    /\ projectState # NoProject
    /\ editingArticle # NoArticle
    /\ CommitFresh(SaveArticle(projectState, editingArticle),
              selectedFolderId, selectedFolderId, selectedArticleId)
    /\ editingArticle' = NoArticle
    /\ Track("saveArticle", editingArticle.id, "none")
    /\ UNCHANGED <<images, pendingDeletes, timers,
                   nextFolderId, nextArticleId, nextImageId>>

handleCloseEditor ==
    /\ editingArticle # NoArticle
    /\ editingArticle' = NoArticle
    /\ Track("closeEditor", editingArticle.id, "none")
    /\ UNCHANGED <<localStorage, projectState, selectedFolderId, selectedArticleId, images,
                   pendingDeletes, timers, nextFolderId, nextArticleId, nextImageId>>

\* --------------------------------------------------------- editor modal
\* crypto.randomUUID() for a section: an id no section of the article has
NewSectionId(article) ==
    IF article.sections = <<>> THEN 1
    ELSE 1 + (CHOOSE m \in {x.id : x \in Range(article.sections)} :
                 \A y \in Range(article.sections) : y.id <= m)

AddSection(article) ==
    [article EXCEPT !.sections =
        Append(@, [id |-> NewSectionId(article), type |-> "fields", images |-> <<>>])]

handleAddSection ==
    /\ editingArticle # NoArticle
    /\ Len(editingArticle.sections) < MaxSections
    /\ editingArticle' = AddSection(editingArticle)
    /\ Track("addSection", editingArticle.id, "none")
    /\ UNCHANGED <<localStorage, projectState, selectedFolderId, selectedArticleId, images,
                   pendingDeletes, timers, nextFolderId, nextArticleId, nextImageId>>

AddImageSection(article) ==
    [article EXCEPT !.sections =
        Append(@, [id |-> NewSectionId(article), type |-> "images", images |-> <<>>])]

handleAddImageSection ==
    /\ editingArticle # NoArticle
    /\ Len(editingArticle.sections) < MaxSections
    /\ editingArticle' = AddImageSection(editingArticle)
    /\ Track("addImageSection", editingArticle.id, "none")
    /\ UNCHANGED <<localStorage, projectState, selectedFolderId, selectedArticleId, images,
                   pendingDeletes, timers, nextFolderId, nextArticleId, nextImageId>>

\* await db.putImage(newImage.id, croppedDataUrl), then the image reference is
\* appended to the images section `sectionId`
CropSave(article, sectionId, imageId) ==
    [article EXCEPT !.sections =
        Map(@, LAMBDA x :
            IF x.id = sectionId /\ x.type = "images"
            THEN [x EXCEPT !.images = Append(@, [id |-> imageId, caption |-> ""])]
            ELSE x)]

handleCropSave(sectionId) ==
    /\ editingArticle # NoArticle
    /\ nextImageId <= MaxImages
    /\ \E x \in Range(editingArticle.sections) : x.id = sectionId /\ x.type = "images"
    /\ images' = images \cup {nextImageId}
    /\ editingArticle' = CropSave(editingArticle, sectionId, nextImageId)
    /\ nextImageId' = nextImageId + 1
    /\ Track("cropSave", editingArticle.id, "none")
    /\ UNCHANGED <<localStorage, projectState, selectedFolderId, selectedArticleId,
                   pendingDeletes, timers, nextFolderId, nextArticleId>>

\* db.deleteImage(imageId) is issued at once; the reference leaves the
\* working copy
DeleteImage(article, sectionId, imageId) ==
    [article EXCEPT !.sections =
        Map(@, LAMBDA x :
            IF x.id = sectionId /\ x.type = "images"
            THEN [x EXCEPT !.images = Filter(@, LAMBDA img : img.id # imageId)]
            ELSE x)]

handleDeleteImage(sectionId, imageId) ==
    /\ editingArticle # NoArticle
    /\ \E x \in Range(editingArticle.sections) :
          x.id = sectionId /\ x.type = "images" /\ imageId \in Ids(x.images)
    /\ pendingDeletes' = pendingDeletes \cup {imageId}
    /\ editingArticle' = DeleteImage(editingArticle, sectionId, imageId)
    /\ Track("deleteImage", imageId, "none")
    /\ UNCHANGED <<localStorage, projectState, selectedFolderId, selectedArticleId, images,
                   timers, nextFolderId, nextArticleId, nextImageId>>

\* The images of an images section are deleted from the Blob Store at once;
\* the section leaves the working copy
DeleteSection(article, sectionId) ==
    [article EXCEPT !.sections = Filter(@, LAMBDA x : x.id # sectionId)]

DeleteSectionImages(article, sectionId) ==
    UNION {Ids(x.images) :
             x \in {y \in Range(article.sections) : y.id = sectionId /\ y.type = "images"}}

handleDeleteSection(sectionId) ==
    /\ editingArticle # NoArticle
    /\ sectionId \in Ids(editingArticle.sections)
    /\ pendingDeletes' = pendingDeletes \cup DeleteSectionImages(editingArticle, sectionId)
    /\ editingArticle' = DeleteSection(editingArticle, sectionId)
    /\ Track("deleteSection", sectionId, "none")
    /\ UNCHANGED <<localStorage, projectState, selectedFolderId, selectedArticleId, images,
                   timers, nextFolderId, nextArticleId, nextImageId>>

\* The root of the folder tree of `folder`: follow parentId while it resolves
RECURSIVE RootFolder(_, _)
RootFolder(allFolders, folder) ==
    IF folder.parentId # NoId /\ folder.parentId \in Ids(allFolders)
    THEN RootFolder(allFolders,
                    allFolders[FindIndex(allFolders, LAMBDA f : f.id = folder.parentId)])
    ELSE folder

\* The articles offered as related: those of the folder tree of the edited
\* article, except the article itself
potentialRelatedArticles(ps, initialArticle) ==
    IF initialArticle.folderId \notin Ids(ps.folders) THEN <<>>
    ELSE LET currentFolder ==
                 ps.folders[FindIndex(ps.folders, LAMBDA f : f.id = initialArticle.folderId)]
             folderIdsInTree ==
                 Descendants(ps.folders, {RootFolder(ps.folders, currentFolder).id})
         IN Filter(ps.articles,
                   LAMBDA a : a.folderId \in folderIdsInTree /\ a.id # initialArticle.id)

ToggleRelatedArticle(article, relatedArticleId) ==
    [article EXCEPT !.relatedArticleIds =
        IF Contains(@, relatedArticleId)
        THEN Filter(@, LAMBDA id : id # relatedArticleId)
        ELSE Append(@, relatedArticleId)]

handleToggleRelatedArticle(relatedArticleId) ==
    /\ editingArticle # NoArticle
    /\ relatedArticleId \in Ids(potentialRelatedArticles(projectState, editingArticle))
    /\ editingArticle' = ToggleRelatedArticle(editingArticle, relatedArticleId)
    /\ Track("toggleRelatedArticle", relatedArticleId, "none")
    /\ UNCHANGED <<localStorage, projectState, selectedFolderId, selectedArticleId, images,
                   pendingDeletes, timers, nextFolderId, nextArticleId, nextImageId>>

\* ------------------------------------------------------------ Blob Store
\* A db.deleteImage(id) request completes: store.delete(id)
completeDeleteImage(id) ==
    /\ id \in pendingDeletes
    /\ images' = images \ {id}
    /\ pendingDeletes' = pendingDeletes \ {id}
    /\ Track("completeDeleteImage", id, "none")
    /\ UNCHANGED <<localStorage, projectState, selectedFolderId, selectedArticleId, editingArticle,
                   timers, nextFolderId, nextArticleId, nextImageId>>

ArticleIdsToDelete_NoDescendants(prev, articleId) == {articleId}

\* idsToDelete of handleDeleteArticle: articleId and its transitive sub-articles
ArticleIdsToDelete(prev, articleId) == Descendants(prev.articles, {articleId})

DeleteArticleArticlesToDelete_InitialOnly(prev, articleId) ==
    Filter(prev.articles, LAMBDA a : a.id = articleId)

\* articlesToDelete of handleDeleteArticle
DeleteArticleArticlesToDelete(prev, articleId) ==
    Filter(prev.articles, LAMBDA a : a.id \in ArticleIdsToDelete(prev, articleId))

DeleteArticleArticles(prev, articleId) ==
    Filter(prev.articles, LAMBDA a : a.id \notin ArticleIdsToDelete(prev, articleId))

handleDeleteArticle(articleId) ==
    /\ Ready
    /\ LET prev == projectState
           idsToDelete == ArticleIdsToDelete(prev, articleId)
       IN /\ pendingDeletes' =
                 pendingDeletes \cup ImagesOf(DeleteArticleArticlesToDelete(prev, articleId))
          /\ CommitFresh([prev EXCEPT !.articles = DeleteArticleArticles(prev, articleId)],
                    selectedFolderId, selectedFolderId,
                    IF selectedArticleId # NoId /\ selectedArticleId \in idsToDelete
                    THEN NoId ELSE selectedArticleId)
    /\ Track("deleteArticle", articleId, "none")
    /\ UNCHANGED <<editingArticle, images, timers,
                   nextFolderId, nextArticleId, nextImageId>>

\* ---------------------------------------------------------------- Next
\* The structural handlers of the two trees, from the welcome screen's
\* "new project"
TreeStep ==
    \/ handleNewProject
    \/ handleCreateFolder
    \/ \E parentId \in FolderIds : handleCreateSubfolder(parentId)
    \/ runDeferredExpansion
    \/ \E id \in FolderIds : handleDeleteFolder(id)
    \/ \E id \in FolderIds, d \in Directions : handleReorderFolder(id, d)
    \/ \E id \in FolderIds : selectFolder(id)
    \/ handleCreateArticle
    \/ \E parentId \in ArticleIds : handleCreateSubArticle(parentId)
    \/ \E id \in ArticleIds, d \in Directions : handleReorderArticle(id, d)
    \/ handleSaveArticle
    \/ handleCloseEditor
    \/ \E id \in ArticleIds : handleDeleteArticle(id)

SpecTree == Init /\ [][TreeStep]_vars

\* Creating and reordering, with every handler call recorded in lastOp
ReorderStep ==
    \/ handleNewProject
    \/ handleCreateFolder
    \/ \E parentId \in FolderIds : handleCreateSubfolder(parentId)
    \/ runDeferredExpansion
    \/ \E id \in FolderIds, d \in Directions : handleReorderFolder(id, d)
    \/ \E id \in FolderIds : selectFolder(id)
    \/ handleCreateArticle
    \/ \E parentId \in ArticleIds : handleCreateSubArticle(parentId)
    \/ \E id \in ArticleIds, d \in Directions : handleReorderArticle(id, d)
    \/ handleSaveArticle
    \/ handleCloseEditor

SpecReorder == InitTraced /\ [][ReorderStep]_vars

\* The structural handlers together with the rename handlers
RenameStep ==
    \/ TreeStep
    \/ \E id \in 1..MaxRenamed, n \in NewNames, c \in NewColors : handleUpdateFolder(id, n, c)
    \/ \E id \in 1..MaxRenamed, t \in NewTitles : handleUpdateArticleTitle(id, t)

SpecRename == Init /\ [][RenameStep]_vars

\* The structural handlers together with the expansion toggles
ToggleStep ==
    \/ TreeStep
    \/ \E id \in 1..MaxToggled : handleToggleFolderExpansion(id)
    \/ \E id \in 1..MaxToggled : handleToggleArticleExpansion(id)

SpecToggle == Init /\ [][ToggleStep]_vars

\* The handlers that take the id of a node, on a new project or on a project
\* restored from a backup file
LoadStep ==
    \/ handleNewProject
    \/ \E file \in BackupFiles : handleLoadBackup(file)
    \/ handleCreateFolder
    \/ \E id \in FolderIds, n \in NewNames, c \in NewColors : handleUpdateFolder(id, n, c)
    \/ \E id \in FolderIds : handleDeleteFolder(id)
    \/ \E id \in FolderIds, d \in Directions : handleReorderFolder(id, d)
    \/ handleCreateArticle
    \/ \E parentId \in ArticleIds : handleCreateSubArticle(parentId)
    \/ \E id \in ArticleIds, t \in NewTitles : handleUpdateArticleTitle(id, t)
    \/ \E id \in ArticleIds, d \in Directions : handleReorderArticle(id, d)
    \/ \E id \in ArticleIds : handleEditArticle(id)
    \/ handleSaveArticle
    \/ handleCloseEditor
    \/ \E id \in ArticleIds : handleDeleteArticle(id)
    \/ \E id \in ImageIds : completeDeleteImage(id)

SpecLoad == Init /\ [][LoadStep]_vars

\* The three ways out of the welcome screen, on a persisted store, and the
\* handlers that change the project afterwards
RestoreStep ==
    \/ handleContinueProject
    \/ handleNewProject
    \/ \E file \in BackupFiles : handleLoadBackup(file)
    \/ handleCreateFolder
    \/ \E id \in FolderIds : handleDeleteFolder(id)
    \/ \E id \in FolderIds : selectFolder(id)
    \/ handleCreateArticle
    \/ \E parentId \in ArticleIds : handleCreateSubArticle(parentId)
    \/ handleSaveArticle
    \/ handleCloseEditor
    \/ \E id \in ArticleIds : handleDeleteArticle(id)
    \/ \E id \in ImageIds : completeDeleteImage(id)

SpecRestore == InitStored /\ [][RestoreStep]_vars

\* Restoring documents of the older schemas, from the store or from a file
MigrateStep ==
    \/ handleContinueProject
    \/ handleNewProject
    \/ \E file \in ArchiveFiles : handleLoadBackup(file)
    \/ handleCreateFolder
    \/ \E id \in FolderIds : selectFolder(id)
    \/ \E id \in FolderIds : handleDeleteFolder(id)
    \/ handleCreateArticle
    \/ \E parentId \in ArticleIds : handleCreateSubArticle(parentId)
    \/ \E id \in ArticleIds : handleDeleteArticle(id)

SpecMigrate == InitArchive /\ [][MigrateStep]_vars

\* Articles with image galleries, their cascading deletes and the Blob Store
BlobStep ==
    \/ handleNewProject
    \/ handleCreateFolder
    \/ \E id \in FolderIds : handleDeleteFolder(id)
    \/ handleCreateArticle
    \/ \E parentId \in ArticleIds : handleCreateSubArticle(parentId)
    \/ \E id \in ArticleIds : handleEditArticle(id)
    \/ handleAddSection
    \/ handleAddImageSection
    \/ \E sectionId \in 1..MaxSections : handleCropSave(sectionId)
    \/ handleSaveArticle
    \/ handleCloseEditor
    \/ \E id \in ArticleIds : handleDeleteArticle(id)
    \/ \E id \in ImageIds : completeDeleteImage(id)

SpecBlob == Init /\ [][BlobStep]_vars

\* Articles, the related-article links made in the editor, and the deletes
LinkStep ==
    \/ handleNewProject
    \/ handleCreateFolder
    \/ \E id \in FolderIds : handleDeleteFolder(id)
    \/ \E id \in FolderIds : selectFolder(id)
    \/ handleCreateArticle
    \/ \E parentId \in ArticleIds : handleCreateSubArticle(parentId)
    \/ \E id \in ArticleIds : handleEditArticle(id)
    \/ \E id \in ArticleIds : handleToggleRelatedArticle(id)
    \/ handleSaveArticle
    \/ handleCloseEditor
    \/ \E id \in ArticleIds : handleDeleteArticle(id)

SpecLink == Init /\ [][LinkStep]_vars

\* The selection of folders and articles, with the creates and deletes that
\* move it; every call is recorded
SelectStep ==
    \/ handleNewProject
    \/ handleCreateFolder
    \/ \E parentId \in FolderIds : handleCreateSubfolder(parentId)
    \/ runDeferredExpansion
    \/ \E id \in FolderIds : selectFolder(id)
    \/ \E id \in FolderIds : handleDeleteFolder(id)
    \/ handleCreateArticle
    \/ \E parentId \in ArticleIds : handleCreateSubArticle(parentId)
    \/ handleSaveArticle
    \/ handleCloseEditor
    \/ \E id \in ArticleIds : selectArticle(id)
    \/ \E id \in ArticleIds : handleDeleteArticle(id)

SpecSelect == InitTraced /\ [][SelectStep]_vars

\* The article viewer's related-article links, in folders with subfolders
ViewerStep ==
    \/ handleNewProject
    \/ handleCreateFolder
    \/ \E parentId \in FolderIds : handleCreateSubfolder(parentId)
    \/ runDeferredExpansion
    \/ \E id \in FolderIds : selectFolder(id)
    \/ \E id \in FolderIds : handleDeleteFolder(id)
    \/ handleCreateArticle
    \/ \E id \in ArticleIds : handleToggleRelatedArticle(id)
    \/ handleSaveArticle
    \/ handleCloseEditor
    \/ \E id \in ArticleIds : selectArticle(id)
    \/ \E id \in ArticleIds : selectRelatedArticle(id)
    \/ \E id \in ArticleIds : handleDeleteArticle(id)

SpecViewer == Init /\ [][ViewerStep]_vars

\* One folder's articles and the editor's image actions
EditorStep ==
    \/ handleNewProject
    \/ handleCreateFolder
    \/ handleCreateArticle
    \/ \E id \in ArticleIds : handleEditArticle(id)
    \/ handleAddSection
    \/ handleAddImageSection
    \/ \E sectionId \in 1..MaxSections : handleCropSave(sectionId)
    \/ \E sectionId \in 1..MaxSections, imageId \in ImageIds :
          handleDeleteImage(sectionId, imageId)
    \/ \E sectionId \in 1..MaxSections : handleDeleteSection(sectionId)
    \/ handleSaveArticle
    \/ handleCloseEditor
    \/ \E id \in ImageIds : completeDeleteImage(id)

SpecEditor == Init /\ [][EditorStep]_vars

\* ------------------------------------------------------------ claim helpers
\* Whether node `id` is `root` or has `root` among its ancestors, following
\* parentId upwards for at most `fuel` links
RECURSIVE InSubtree(_, _, _, _)
InSubtree(nodes, root, id, fuel) ==
    \/ id = root
    \/ /\ fuel > 0
       /\ \E n \in Range(nodes) :
            n.id = id /\ n.parentId # NoId /\ InSubtree(nodes, root, n.parentId, fuel - 1)

SubtreeIds(nodes, root) ==
    {n.id : n \in {m \in Range(nodes) : InSubtree(nodes, root, m.id, Len(nodes))}}

Folders == IF projectState = NoProject THEN <<>> ELSE projectState.folders
Articles == IF projectState = NoProject THEN <<>> ELSE projectState.articles

FolderSiblingOf(f, g) == f.id # g.id /\ f.parentId = g.parentId
ArticleSiblingOf(a, b) == a.id # b.id /\ a.parentId = b.parentId /\ a.folderId = b.folderId

\* ------------------------------------------------------------------ C1
\* C1: deleteFolder(id) on an existing folder removes exactly the folders of
\* the subtree rooted at id and the articles whose folderId is one of them;
\* no article of a removed folder remains and everything else is still there.
C1_DeleteFolderCascade ==
    [][\A id \in FolderIds :
          (Ready /\ id \in Ids(projectState.folders) /\ handleDeleteFolder(id)) =>
             LET removed == SubtreeIds(projectState.folders, id)
             IN /\ Range(projectState'.folders) =
                      {f \in Range(projectState.folders) : f.id \notin removed}
                /\ Range(projectState'.articles) =
                      {a \in Range(projectState.articles) : a.folderId \notin removed}
                /\ \A a \in Range(projectState'.articles) : a.folderId \notin removed
                /\ Len(projectState'.folders) = Len(projectState.folders) - Cardinality(removed)]_vars

\* A folder was deleted together with a subfolder and an article, and another
\* folder with its article is still there.
C1_Witness ==
    /\ Ready
    /\ nextFolderId = 4
    /\ Len(Folders) = 1
    /\ nextArticleId >= 3
    /\ Len(Articles) = 1
    /\ Articles[1].folderId = Folders[1].id
    /\ Articles[1].id = 1

\* ------------------------------------------------------------------ C2
\* C2: deleteArticle(id) on an existing article removes exactly that article
\* and its transitive sub-articles; the other articles, the folders and both
\* expansion sets are unchanged.
C2_DeleteArticleCascade ==
    [][\A id \in ArticleIds :
          (Ready /\ id \in Ids(projectState.articles) /\ handleDeleteArticle(id)) =>
             LET removed == SubtreeIds(projectState.articles, id)
             IN /\ projectState'.articles =
                      SelectSeq(projectState.articles, LAMBDA a : a.id \notin removed)
                /\ projectState'.folders = projectState.folders
                /\ projectState'.expandedFolderIds = projectState.expandedFolderIds
                /\ projectState'.expandedArticleIds = projectState.expandedArticleIds]_vars

\* An article that had a sub-article was deleted (its id is still listed in
\* expandedArticleIds) and another root article is left.
C2_Witness ==
    /\ Ready
    /\ nextArticleId = 4
    /\ Len(Articles) = 1
    /\ Articles[1].parentId = NoId
    /\ Len(projectState.expandedArticleIds) >= 1
    /\ \A x \in Range(projectState.expandedArticleIds) : x \notin Ids(Articles)

\* ------------------------------------------------------------------ C3
\* C3: from an empty project, every article's folderId is the id of a folder
\* that exists.
C3_ArticleFolderExists ==
    \A a \in Range(Articles) : a.folderId \in Ids(Folders)

\* Articles are left after a folder with articles was deleted and a folder
\* was expanded.
C3_Witness ==
    /\ Ready
    /\ Len(Folders) < nextFolderId - 1
    /\ Len(Articles) < nextArticleId - 1
    /\ Len(Articles) >= 1
    /\ \E a \in Range(Articles) : a.parentId # NoId
    /\ projectState.expandedFolderIds # <<>>

C5_NewNodeSortsLast ==
    [][/\ projectState # NoProject /\ projectState' # NoProject =>
            \A f \in Range(projectState'.folders) :
                f.id \notin Ids(projectState.folders) =>
                    LET siblings == {g \in Range(projectState.folders) : g.parentId = f.parentId}
                    IN /\ \A g \in siblings : f.sortOrder > g.sortOrder
                       /\ siblings = {} => f.sortOrder = 0
       /\ projectState # NoProject /\ projectState' # NoProject =>
            \A a \in Range(projectState'.articles) :
                a.id \notin Ids(projectState.articles) =>
                    LET siblings == {b \in Range(projectState.articles) :
                                        b.parentId = a.parentId /\ b.folderId = a.folderId}
                    IN /\ \A b \in siblings : a.sortOrder > b.sortOrder
                       /\ siblings = {} => a.sortOrder = 0]_vars

\* A folder and a sub-article were created next to siblings whose sortOrder
\* values have a gap or were exchanged.
C5_Witness ==
    /\ \E f, g \in Range(Folders) :
          FolderSiblingOf(f, g) /\ f.id = nextFolderId - 1 /\ f.sortOrder >= 2
    /\ \E a, b \in Range(Articles) :
          ArticleSiblingOf(a, b) /\ a.id = nextArticleId - 1 /\ a.parentId # NoId
             /\ a.sortOrder > b.sortOrder
\* ------------------------------------------------------------------ C6
\* The sibling next to `n` in sortOrder order among `siblings` (n excluded):
\* the nearest lower one for "up", the nearest higher one for "down"
Neighbours(siblings, n, direction) ==
    IF direction = "up"
    THEN {t \in siblings : /\ t.sortOrder < n.sortOrder
                           /\ \A u \in siblings : u.sortOrder < n.sortOrder
                                                     => u.sortOrder <= t.sortOrder}
    ELSE {t \in siblings : /\ t.sortOrder > n.sortOrder
                           /\ \A u \in siblings : u.sortOrder > n.sortOrder
                                                     => u.sortOrder >= t.sortOrder}

NodeById(nodes, id) == CHOOSE n \in Range(nodes) : n.id = id

\* `after` is `before` with only the sortOrder of the nodes x and y exchanged
Exchanged(before, after, x, y) ==
    /\ Len(after) = Len(before)
    /\ \A i \in 1..Len(before) :
          after[i] = IF before[i].id = x.id THEN [before[i] EXCEPT !.sortOrder = y.sortOrder]
                     ELSE IF before[i].id = y.id THEN [before[i] EXCEPT !.sortOrder = x.sortOrder]
                     ELSE before[i]

\* C6: a reorder that is not at a boundary exchanges the sortOrder of the
\* moved node and of the sibling next to it in sortOrder order, and changes
\* nothing else in ProjectState.
C6_ReorderExchangesTwo ==
    [][/\ \A id \in FolderIds, d \in Directions :
            (Ready /\ id \in Ids(projectState.folders) /\ handleReorderFolder(id, d)) =>
               LET n == NodeById(projectState.folders, id)
                   siblings == {g \in Range(projectState.folders) : FolderSiblingOf(g, n)}
                   next == Neighbours(siblings, n, d)
               IN next # {} =>
                    /\ \E t \in next : Exchanged(projectState.folders, projectState'.folders, n, t)
                    /\ projectState'.folders # projectState.folders
                    /\ projectState' = [projectState EXCEPT !.folders = projectState'.folders]
       /\ \A id \in ArticleIds, d \in Directions :
            (Ready /\ id \in Ids(projectState.articles) /\ handleReorderArticle(id, d)) =>
               LET n == NodeById(projectState.articles, id)
                   siblings == {b \in Range(projectState.articles) : ArticleSiblingOf(b, n)}
                   next == Neighbours(siblings, n, d)
               IN next # {} =>
                    /\ \E t \in next : Exchanged(projectState.articles, projectState'.articles, n, t)
                    /\ projectState'.articles # projectState.articles
                    /\ projectState' = [projectState EXCEPT !.articles = projectState'.articles]]_vars

\* Among three sibling folders the middle one in creation order sorts last,
\* and among sibling articles a younger one sorts before an older one.
C6_Witness ==
    /\ \E f, g, h \in Range(Folders) :
          /\ FolderSiblingOf(f, g) /\ FolderSiblingOf(g, h) /\ FolderSiblingOf(f, h)
          /\ f.id < g.id /\ g.id < h.id
          /\ f.sortOrder < h.sortOrder /\ h.sortOrder < g.sortOrder
    /\ \E a, b \in Range(Articles) :
          ArticleSiblingOf(a, b) /\ a.id < b.id /\ a.sortOrder > b.sortOrder

\* ------------------------------------------------------------------ C7
SortOrders(nodes) == [i \in 1..Len(nodes) |-> <<nodes[i].id, nodes[i].sortOrder>>]

\* The project state after handleReorderFolder / handleReorderArticle
AfterReorderFolder(ps, id, d) == Committed(ReorderFolder(ps, id, d), selectedFolderId)
AfterReorderArticle(ps, id, d) == Committed(ReorderArticle(ps, id, d), selectedFolderId)

Opposite(d) == IF d = "up" THEN "down" ELSE "up"

C8_BoundaryReorderNoOp ==
    [][/\ \A id \in FolderIds, d \in Directions :
            (Ready /\ id \in Ids(projectState.folders) /\ handleReorderFolder(id, d)) =>
               LET n == NodeById(projectState.folders, id)
                   siblings == {g \in Range(projectState.folders) : FolderSiblingOf(g, n)}
               IN Neighbours(siblings, n, d) = {} => projectState' = projectState
       /\ \A id \in ArticleIds, d \in Directions :
            (Ready /\ id \in Ids(projectState.articles) /\ handleReorderArticle(id, d)) =>
               LET n == NodeById(projectState.articles, id)
                   siblings == {b \in Range(projectState.articles) : ArticleSiblingOf(b, n)}
               IN Neighbours(siblings, n, d) = {} => projectState' = projectState]_vars

\* The last call moved the first of several sibling folders up, in a project
\* that also holds sibling articles.
C8_Witness ==
    /\ lastOp.op = "reorderFolder"
    /\ lastOp.direction = "up"
    /\ lastOp.id \in Ids(Folders)
    /\ LET n == NodeById(Folders, lastOp.id)
           siblings == {g \in Range(Folders) : FolderSiblingOf(g, n)}
       IN /\ Cardinality(siblings) >= 2
          /\ Neighbours(siblings, n, "up") = {}
          /\ n.id # 1
    /\ \E a, b \in Range(Articles) : ArticleSiblingOf(a, b)

\* ------------------------------------------------------------------ C9
\* C9: a mutation handler called with an id that is absent from its
\* collection leaves ProjectState unchanged: rename/recolour, delete and
\* reorder of a folder; createSubArticle, updateArticleTitle, deleteArticle and
\* reorderArticle of an article; also on a loaded project with nodes whose
\* parentId does not resolve.
AbsentFolderIdCall(id) ==
    /\ Ready
    /\ id \notin Ids(Folders)
    /\ \/ \E n \in NewNames, c \in NewColors : handleUpdateFolder(id, n, c)
       \/ handleDeleteFolder(id)
       \/ \E d \in Directions : handleReorderFolder(id, d)

AbsentArticleIdCall(id) ==
    /\ Ready
    /\ id \notin Ids(Articles)
    /\ \/ handleCreateSubArticle(id)
       \/ \E t \in NewTitles : handleUpdateArticleTitle(id, t)
       \/ handleDeleteArticle(id)
       \/ \E d \in Directions : handleReorderArticle(id, d)

C9_AbsentIdIsNoOp ==
    [][/\ \A id \in FolderIds : AbsentFolderIdCall(id) => projectState' = projectState
       /\ \A id \in ArticleIds : AbsentArticleIdCall(id) => projectState' = projectState]_vars

\* ------------------------------------------------------------------ C10
\* C10: when a step removes articles from the project (deleteFolder,
\* deleteArticle), a Blob Store delete is issued for every image id of the
\* images sections of the removed articles and for no image of a surviving
\* article; an issued delete stays pending until its blob has left the store,
\* and a blob that has left the store does not come back.
RemovedArticles ==
    SelectSeq(Articles, LAMBDA a : a.id \notin Ids(projectState'.articles))

C10_CascadeDeletesBlobs ==
    [][/\ (projectState # NoProject /\ projectState' # NoProject) =>
            /\ ImagesOf(RemovedArticles) \subseteq pendingDeletes'
            /\ (pendingDeletes' \ pendingDeletes) \subseteq ImagesOf(RemovedArticles)
            /\ (pendingDeletes' \ pendingDeletes) \cap ImagesOf(projectState'.articles) = {}
            /\ RemovedArticles # <<>> => images' = images
       /\ \A i \in pendingDeletes : i \in pendingDeletes' \/ i \notin images'
       /\ \A i \in ImageIds : (i < nextImageId /\ i \notin images) => i \notin images'
       /\ \A a \in Range(Articles) :
            a.id \in Ids(projectState'.articles) =>
               (ImagesOfArticle(a) \subseteq images => ImagesOfArticle(a) \subseteq images')]_vars

\* An article with an image was removed by a cascade, every issued delete has
\* completed and its blob is gone, and a surviving article still has its blob.
C10_Witness ==
    /\ Ready
    /\ pendingDeletes = {}
    /\ \E i \in ImageIds : i < nextImageId /\ i \notin images
    /\ \E a \in Range(Articles) :
          /\ ImagesOfArticle(a) # {}
          /\ ImagesOfArticle(a) \subseteq images

\* ------------------------------------------------------------------ C11
\* C11: restoring an archive that fails the validation gate (its project has
\* no folders or no articles collection) changes nothing: the in-memory
\* ProjectState, the stored document and the Blob Store are what they were,
\* for an archive of either format.
IsValidArchive(file) ==
    HasKey(LoadedProject(file), "folders") /\ HasKey(LoadedProject(file), "articles")

C11_MalformedArchiveRejected ==
    [][\A file \in BackupFiles :
          (~IsValidArchive(file) /\ handleLoadBackup(file)) =>
             UNCHANGED <<projectState, localStorage, images>>]_vars

\* ------------------------------------------------------------------ C12
\* C12: when "continue" fails (the stored text does not parse, or a Blob
\* Store write of the migration rejects), the document in the Structured
\* Store afterwards is the document that was there before.
C12_FailedContinueKeepsDocument ==
    [][(ContinueParseError \/ \E n \in 0..MaxImages : ContinueMigrationFailure(n)) =>
          localStorage' = localStorage]_vars

\* ------------------------------------------------------------------ C13
\* C13: no article's relatedArticleIds contains the id of an article that is
\* not in ProjectState, after any sequence of create, link (save) and delete
\* operations.
C13_RelatedArticlesExist ==
    \A a \in Range(Articles) : Range(a.relatedArticleIds) \subseteq Ids(Articles)

\* ------------------------------------------------------------------ C14
\* C14: once the editor is closed, by save or without saving, every image
\* reference present in ProjectState has its blob in the Blob Store.
C14_ImageRefsHaveBlobs ==
    editingArticle = NoArticle =>
        \A a \in Range(Articles) : ImagesOfArticle(a) \subseteq images

\* ------------------------------------------------------------------ C15
\* C15: when deleteFolder removes the selected folder, the folder selected
\* afterwards is the deleted folder's parent if it survives, otherwise the
\* remaining root folder with the lowest sortOrder, otherwise none.
RemainingRoots == {f \in Range(projectState'.folders) : f.parentId = NoId}

ExpectedFolderFallback(id) ==
    LET parent == NodeById(projectState.folders, id).parentId
    IN IF parent # NoId /\ parent \in Ids(projectState'.folders) THEN {parent}
       ELSE IF RemainingRoots # {}
            THEN {f.id : f \in {g \in RemainingRoots :
                                   \A h \in RemainingRoots : g.sortOrder <= h.sortOrder}}
            ELSE {NoId}

C15_DeleteFolderSelectionFallback ==
    [][\A id \in FolderIds :
          (/\ Ready
           /\ id \in Ids(projectState.folders)
           /\ selectedFolderId \in SubtreeIds(projectState.folders, id)
           /\ handleDeleteFolder(id)) =>
             selectedFolderId' \in ExpectedFolderFallback(id)]_vars

\* ------------------------------------------------------------------ C16
\* C16: when deleteArticle removes the selected article, the article selected
\* afterwards is the deleted article's parent if it survives, otherwise the
\* remaining root-level article of the same folder with the lowest sortOrder,
\* otherwise none.
RemainingRootArticles(folderId) ==
    {a \in Range(projectState'.articles) : a.parentId = NoId /\ a.folderId = folderId}

ExpectedArticleFallback(id) ==
    LET deleted == NodeById(projectState.articles, id)
        roots == RemainingRootArticles(deleted.folderId)
    IN IF deleted.parentId # NoId /\ deleted.parentId \in Ids(projectState'.articles)
       THEN {deleted.parentId}
       ELSE IF roots # {}
            THEN {a.id : a \in {b \in roots : \A c \in roots : b.sortOrder <= c.sortOrder}}
            ELSE {NoId}

C16_DeleteArticleSelectionFallback ==
    [][\A id \in ArticleIds :
          (/\ Ready
           /\ id \in Ids(projectState.articles)
           /\ selectedArticleId \in SubtreeIds(projectState.articles, id)
           /\ handleDeleteArticle(id)) =>
             selectedArticleId' \in ExpectedArticleFallback(id)]_vars

\* ------------------------------------------------------------------ C17
\* C17: whenever a step changes the selected folder, the selected article is
\* none after the step (the effects have run before the next handler).
C17_FolderChangeClearsArticle ==
    [][selectedFolderId' # selectedFolderId => selectedArticleId' = NoId]_vars

\* Another folder was just selected while an article of a different folder
\* exists, and no article is selected.
C17_Witness ==
    /\ Ready
    /\ lastOp.op = "selectFolder"
    /\ selectedFolderId = lastOp.id
    /\ selectedArticleId = NoId
    /\ \E a \in Range(Articles) : a.folderId # selectedFolderId

\* ------------------------------------------------------------------ C18
\* C18: createFolder(parentId) with a parent leaves parentId expanded or with
\* a deferred expansion pending; the deferred expansion, when it runs, makes
\* parentId a member of expandedFolderIds; and only a toggle of parentId takes
\* it out of expandedFolderIds or drops its pending expansion.
ExpandedFolders == IF projectState = NoProject THEN {} ELSE Range(projectState.expandedFolderIds)

C18_SubfolderExpandsParent ==
    [][/\ \A p \in FolderIds :
            (Ready /\ p \in Ids(Folders) /\ handleCreateSubfolder(p)) =>
               (p \in ExpandedFolders' \/ p \in Range(timers'))
       /\ runDeferredExpansion => Head(timers) \in ExpandedFolders'
       /\ \A p \in FolderIds :
            (/\ p \in ExpandedFolders \/ p \in Range(timers)
             /\ ~handleToggleFolderExpansion(p)) =>
               (p \in ExpandedFolders' \/ p \in Range(timers'))]_vars

\* A subfolder exists whose parent is not an id the toggles are called with,
\* no deferred expansion is pending, and the parent is expanded: the deferred
\* expansion has run.
C18_Witness ==
    /\ Ready
    /\ timers = <<>>
    /\ \E f \in Range(Folders) :
          /\ f.parentId # NoId
          /\ f.parentId > MaxToggled
          /\ f.parentId \in ExpandedFolders

\* ------------------------------------------------------------------ C19
\* C19: toggling the expansion of an id twice gives back an expansion set
\* with the original members, for folders and for articles, and a toggle
\* changes nothing of ProjectState but its expansion set.
ToggledTwice(expanded, id) == ToggleIn(ToggleIn(expanded, id), id)

C19_ToggleTwiceRestores ==
    /\ [](projectState # NoProject =>
            /\ \A id \in FolderIds :
                 Range(ToggledTwice(projectState.expandedFolderIds, id))
                    = Range(projectState.expandedFolderIds)
            /\ \A id \in ArticleIds :
                 Range(ToggledTwice(projectState.expandedArticleIds, id))
                    = Range(projectState.expandedArticleIds))
    /\ [][/\ \A id \in FolderIds :
               (Ready /\ handleToggleFolderExpansion(id)) =>
                  /\ projectState' = [projectState EXCEPT
                                         !.expandedFolderIds = projectState'.expandedFolderIds]
                  /\ Range(ToggleIn(projectState'.expandedFolderIds, id)) = ExpandedFolders
          /\ \A id \in ArticleIds :
               (Ready /\ handleToggleArticleExpansion(id)) =>
                  /\ projectState' = [projectState EXCEPT
                                         !.expandedArticleIds = projectState'.expandedArticleIds]
                  /\ Range(ToggleIn(projectState'.expandedArticleIds, id))
                        = Range(projectState.expandedArticleIds)]_vars

\* A folder without subfolders and an article are expanded, which only a
\* toggle does, next to a parent expanded by a deferred expansion.
C19_Witness ==
    /\ Ready
    /\ 1 \in ExpandedFolders
    /\ \A f \in Range(Folders) : f.parentId # 1
    /\ Cardinality(ExpandedFolders) >= 2
    /\ projectState.expandedArticleIds # <<>>

HasInlineKey(image) == "dataUrl" \in DOMAIN image

HasInlinePayload(image) == HasInlineKey(image) /\ image.dataUrl # ""

StartsInline(section) ==
    /\ section.type = "images"
    /\ section.images # <<>>
    /\ HasInlineKey(section.images[1])

SectionMigrated(before, after) ==
    /\ Len(after.images) = Len(before.images)
    /\ \A i \in 1..Len(before.images) :
         LET image == before.images[i]
         IN IF HasInlinePayload(image)
            THEN /\ image.id \in images'
                 /\ after.images[i] = [id |-> image.id, caption |-> image.caption]
            ELSE after.images[i] = image
    /\ [after EXCEPT !.images = before.images] = before

GalleriesMigrated(document) ==
    /\ Len(projectState'.articles) = Len(document.articles)
    /\ \A a \in 1..Len(document.articles) :
         LET before == document.articles[a].sections
             after == projectState'.articles[a].sections
         IN /\ Len(after) = Len(before)
            /\ \A s \in 1..Len(before) :
                 StartsInline(before[s]) => SectionMigrated(before[s], after[s])

C21_InlineImagesMigrated ==
    [][/\ \A file \in ArchiveFiles :
            (IsValidArchive(file) /\ handleLoadBackup(file)) =>
               GalleriesMigrated(ShapeRepair(LoadedProject(file)))
       /\ ContinueSuccess => GalleriesMigrated(ContinueRepair(localStorage))]_vars

\* A gallery of the open project starts with a reference whose blob is in
\* the Blob Store and still has, after it, an image with an empty payload
\* under the inline key: a migrated section with an image that was kept.
C21_Witness ==
    /\ Ready
    /\ \E a \in Range(Articles) : \E section \in Range(a.sections) :
          /\ section.type = "images"
          /\ Len(section.images) >= 2
          /\ ~HasInlineKey(section.images[1])
          /\ section.images[1].id \in images
          /\ \E i \in 2..Len(section.images) :
                HasInlineKey(section.images[i]) /\ ~HasInlinePayload(section.images[i])

\* ------------------------------------------------------------------ C22
\* C22: the migration is decided section by section, by the first image
\* only: an images section whose first image has no inline payload key is in
\* memory exactly what it was in the document, the inline payloads of its
\* later images included, and none of its images is written to the Blob
\* Store, whatever the other sections of the document are.
StartsWithReference(section) ==
    /\ section.type = "images"
    /\ section.images # <<>>
    /\ ~HasInlineKey(section.images[1])

\* `base` is what the Blob Store holds before the migration writes
SectionUntouched(before, after, base) ==
    /\ after = before
    /\ \A image \in Range(before.images) :
         HasInlinePayload(image) => (image.id \in images' => image.id \in base)

ReferencesUntouched(document, base) ==
    /\ Len(projectState'.articles) = Len(document.articles)
    /\ \A a \in 1..Len(document.articles) :
         LET before == document.articles[a].sections
             after == projectState'.articles[a].sections
         IN /\ Len(after) = Len(before)
            /\ \A s \in 1..Len(before) :
                 StartsWithReference(before[s]) =>
                    SectionUntouched(before[s], after[s], base)

C22_MigrationDecidedByFirstImage ==
    [][/\ \A file \in ArchiveFiles :
            (IsValidArchive(file) /\ handleLoadBackup(file)) =>
               ReferencesUntouched(ShapeRepair(LoadedProject(file)),
                                   IF IsCurrentFormat(file) THEN Range(file.images)
                                   ELSE images)
       /\ ContinueSuccess => ReferencesUntouched(ContinueRepair(localStorage), images)]_vars

\* An article of the open project has a gallery that starts with a reference
\* and still holds an inline payload whose image is not in the Blob Store,
\* next to another gallery whose first image is in the Blob Store.
C22_Witness ==
    /\ Ready
    /\ \E a \in Range(Articles) : \E kept, other \in Range(a.sections) :
          /\ kept # other
          /\ StartsWithReference(kept)
          /\ \E image \in Range(kept.images) :
                HasInlinePayload(image) /\ image.id \notin images
          /\ StartsWithReference(other)
          /\ other.images[1].id \in images

\* ------------------------------------------------------------------ C23
\* C23: an imported archive is handled as current-format exactly when it has
\* a projectState member and an images array. Then the ProjectState is taken
\* from projectState, and the Blob Store afterwards holds exactly the
\* archive's images and the inline images migrated from that ProjectState.
\* Any other document is taken as the ProjectState itself, and the Blob Store
\* keeps what it held.
HasFoldersAndArticles(project) ==
    "folders" \in DOMAIN project /\ "articles" \in DOMAIN project

\* The open project after the step is `project`: its folders and its articles
TakenFrom(project) ==
    /\ projectState' # NoProject
    /\ Range(projectState'.folders) = Range(project.folders)
    /\ Ids(projectState'.articles) = Ids(project.articles)
    /\ Len(projectState'.articles) = Len(project.articles)

InlineImageIds(project) ==
    {image.id : image \in
        UNION {UNION {{i \in Range(section.images) : HasInlinePayload(i)} :
                         section \in {x \in Range(a.sections) : StartsInline(x)}} :
                  a \in Range(project.articles)}}

RestoredFrom(project) ==
    IF HasFoldersAndArticles(project)
    THEN TakenFrom(project)
    ELSE UNCHANGED projectState

C23_ArchiveFormatDetection ==
    [][\A file \in ArchiveFiles :
          handleLoadBackup(file) =>
             IF "projectState" \in DOMAIN file /\ "images" \in DOMAIN file
             THEN /\ RestoredFrom(file.projectState)
                  /\ images' = Range(file.images) \cup
                         (IF HasFoldersAndArticles(file.projectState)
                          THEN InlineImageIds(ShapeRepair(file.projectState))
                          ELSE {})
             ELSE /\ RestoredFrom(file)
                  /\ images \subseteq images']_vars

\* The open project came from the archive CurrentInline: the Blob Store holds
\* the archive's image and the migrated inline image, and nothing else.
C23_Witness ==
    /\ Ready
    /\ images = Range(CurrentInline.images) \cup InlineImageIds(CurrentInline.projectState)
    /\ Cardinality(images) = 2
    /\ Range(Folders) = Range(CurrentInline.projectState.folders)
    /\ \E a \in Range(Articles) : ImagesOfArticle(a) \cap images # {}

\* ------------------------------------------------------------------ C24
\* C24: after any sequence of createFolder, rename/recolour, reorder and
\* deleteFolder calls on a new project, no folder is its own ancestor; and a
\* folder that is there before and after a step has the parentId it had, so
\* that only createFolder gives a folder its parentId.
OwnAncestor(f) ==
    f.parentId # NoId /\ InSubtree(Folders, f.id, f.parentId, Len(Folders))

C24_FolderGraphAcyclic ==
    /\ [](\A f \in Range(Folders) : ~OwnAncestor(f))
    /\ [][projectState # NoProject =>
             \A f \in Range(Folders) : \A g \in Range(projectState'.folders) :
                g.id = f.id => g.parentId = f.parentId]_vars

\* A renamed folder, two sibling folders that were reordered (the younger
\* sorts first) and a subfolder are in the project.
C24_Witness ==
    /\ Ready
    /\ \E f \in Range(Folders) : f.name \in NewNames /\ f.color \in NewColors
    /\ \E f, g \in Range(Folders) :
          FolderSiblingOf(f, g) /\ f.id < g.id /\ f.sortOrder > g.sortOrder
    /\ \E f \in Range(Folders) : f.parentId \in Ids(Folders)

\* ------------------------------------------------------------------ C25
\* C25: after any sequence of createArticle, createSubArticle, saveArticle,
\* updateArticleTitle, reorder and delete calls on a new project, every
\* article with a parentId has its parent article in the project, and the
\* parent's folderId is its own.
C25_SubArticleSharesFolder ==
    \A a \in Range(Articles) :
        a.parentId # NoId =>
            \E p \in Range(Articles) : p.id = a.parentId /\ p.folderId = a.folderId

\* With two folders in the project, a sub-article and its parent are there
\* next to a retitled article, after an article was deleted.
C25_Witness ==
    /\ Ready
    /\ Len(Folders) >= 2
    /\ \E a \in Range(Articles) : a.parentId \in Ids(Articles)
    /\ \E a \in Range(Articles) : a.title \in NewTitles
    /\ Len(Articles) < nextArticleId - 1

\* ------------------------------------------------------------------ C26
\* C26: on the initial load of a project (new, continued or restored from a
\* file) no folder is selected beforehand, and the folder selected afterwards
\* is a root folder with the lowest sortOrder among the roots, or some folder
\* of the project when it has no root; for a project without folders it is
\* none.
RootFolders(folders) == {f \in Range(folders) : f.parentId = NoId}

C26_InitialFolderSelection ==
    [][(projectState = NoProject /\ projectState' # NoProject /\ selectedFolderId = NoId) =>
          LET folders == projectState'.folders
              roots == RootFolders(folders)
          IN IF folders = <<>> THEN selectedFolderId' = NoId
             ELSE IF roots # {}
                  THEN \E r \in roots :
                          /\ selectedFolderId' = r.id
                          /\ \A q \in roots : r.sortOrder <= q.sortOrder
                  ELSE selectedFolderId' \in Ids(folders)]_vars

\* The project was restored from a document whose first folder is not the
\* root with the lowest sortOrder: the stored document still has that order,
\* and the selected folder is the root that sorts first.
C26_Witness ==
    /\ Ready
    /\ localStorage \notin {NoDocument, CorruptDocument}
    /\ Cardinality(RootFolders(Folders)) >= 2
    /\ Ids(localStorage.folders) = Ids(Folders)
    /\ localStorage.folders[1].id # selectedFolderId
    /\ \E r \in RootFolders(Folders) :
          /\ r.id = selectedFolderId
          /\ \A q \in RootFolders(Folders) : q.id # r.id => r.sortOrder < q.sortOrder

\* ------------------------------------------------------------------ C27
\* C27: after any sequence of folder selections, article selections (in the
\* article list or through a related-article link), creates and deletes, the
\* selected article id is none or the id of an article of ProjectState.
C27_SelectedArticleExists ==
    selectedArticleId # NoId => selectedArticleId \in Ids(Articles)

\* ------------------------------------------------------------------ C28
\* C28: after any sequence of new project, restore, createFolder, select,
\* deleteFolder and reorder calls, with the selection effects run, the
\* selected folder id is none or the id of a folder of ProjectState; and
\* createArticle gives the new article the folderId of a folder of
\* ProjectState.
C28_SelectedFolderExists ==
    /\ [](selectedFolderId # NoId => selectedFolderId \in Ids(Folders))
    /\ [][(Ready /\ handleCreateArticle) =>
             projectState'.articles[Len(projectState'.articles)].folderId
                \in Ids(projectState'.folders)]_vars

\* ------------------------------------------------------------------ C29
\* C29: after any sequence of create, toggle and delete calls,
\* expandedFolderIds holds only ids of folders of ProjectState and
\* expandedArticleIds only ids of articles of ProjectState.
C29_ExpandedIdsExist ==
    projectState # NoProject =>
        /\ Range(projectState.expandedFolderIds) \subseteq Ids(Folders)
        /\ Range(projectState.expandedArticleIds) \subseteq Ids(Articles)

\* ------------------------------------------------------------------ C30
\* C30: expandedFolderIds never holds the same id twice, under every
\* interleaving of createFolder calls, their deferred expansions and
\* toggleFolderExpansion calls.
C30_ExpandedFolderIdsDistinct ==
    projectState # NoProject =>
        \A i, j \in 1..Len(projectState.expandedFolderIds) :
            projectState.expandedFolderIds[i] = projectState.expandedFolderIds[j] => i = j
====
